---- MODULE Spec2Model ----
(***************************************************************************)
(* The "spoon" backend: one process-wide session (routes.py session_data), *)
(* three load handlers, two question handlers and three read handlers of   *)
(* backend/app/routes.py, with the ingestion functions of services.py.     *)
(*                                                                         *)
(* Python values:                                                          *)
(*   - an Optional is a sequence of length 0 (None) or 1 (the value);      *)
(*   - a str is a sequence of lexemes.  A lexeme is a piece of text that   *)
(*     the string operations used by the code never cut: "," and the       *)
(*     whitespace characters are lexemes of their own, and no lexeme is a  *)
(*     prefix of another, so two strs are equal iff their sequences are;   *)
(*   - file texts are sequences of one-character lexemes.                  *)
(***************************************************************************)
EXTENDS Integers, Sequences, FiniteSets, TLC

VARIABLES
    session_data,   \* routes.py:19-27, the process-wide session
    req,            \* the request being served: its locals and position
    hist,           \* ghost: the last finished load requests, oldest first
    parked          \* the frame of the worker thread that is not running now

vars == <<session_data, req, hist, parked>>

-----------------------------------------------------------------------------
(* Optional values and Python truthiness *)

None == <<>>
Some(x) == <<x>>
IsNone(o) == Len(o) = 0
Val(o) == o[1]

\* `if not x` for x an Optional str or Optional list: None and empty are falsy
Truthy(o) == Len(o) = 1 /\ Len(o[1]) > 0

-----------------------------------------------------------------------------
(* str operations *)

Whitespace == {" ", "\n"}

LowerLex(a) ==
    CASE a = ".PNG" -> ".png"
      [] a = ".TXT" -> ".txt"
      [] a = ".JPG" -> ".jpg"
      [] a = "LOGO" -> "logo"
      [] a = "README" -> "readme"
      [] a = ".DS_Store" -> ".ds_store"
      [] a = "Conversational_Reply" -> "conversational_reply"
      [] a = "GENERAL_CHAT" -> "general_chat"
      [] a = "Broad_Query" -> "broad_query"
      [] OTHER -> a

lower(s) == [i \in DOMAIN s |-> LowerLex(s[i])]

\* `sub in s`
Contains(sub, s) ==
    \E i \in 0..(Len(s) - Len(sub)) : SubSeq(s, i + 1, i + Len(sub)) = sub

endswith(s, suf) ==
    /\ Len(s) >= Len(suf)
    /\ SubSeq(s, Len(s) - Len(suf) + 1, Len(s)) = suf

RECURSIVE lstrip(_, _)
lstrip(s, chars) ==
    IF s # <<>> /\ Head(s) \in chars THEN lstrip(Tail(s), chars) ELSE s

RECURSIVE rstrip(_, _)
rstrip(s, chars) ==
    IF s # <<>> /\ s[Len(s)] \in chars
    THEN rstrip(SubSeq(s, 1, Len(s) - 1), chars)
    ELSE s

\* s.strip(): whitespace off both ends
strip(s) == rstrip(lstrip(s, Whitespace), Whitespace)

\* s.split(sep) for a one-lexeme separator: "" splits to [""]
RECURSIVE SplitFrom(_, _, _, _)
SplitFrom(s, sep, cur, acc) ==
    IF s = <<>> THEN Append(acc, cur)
    ELSE IF Head(s) = sep THEN SplitFrom(Tail(s), sep, <<>>, Append(acc, cur))
    ELSE SplitFrom(Tail(s), sep, Append(cur, Head(s)), acc)

split(s, sep) == SplitFrom(s, sep, <<>>, <<>>)

\* sep.join(parts)
RECURSIVE join(_, _)
join(sep, parts) ==
    IF parts = <<>> THEN <<>>
    ELSE IF Len(parts) = 1 THEN parts[1]
    ELSE parts[1] \o sep \o join(sep, Tail(parts))

\* s.replace(old, "") for a one-lexeme old
RECURSIVE remove(_, _)
remove(s, old) ==
    IF s = <<>> THEN <<>>
    ELSE IF Head(s) = old THEN remove(Tail(s), old)
    ELSE <<Head(s)>> \o remove(Tail(s), old)

\* [f(x) for x in xs if p(x)] is written with these two
RECURSIVE SelectSeqIdx(_, _, _)
SelectSeqIdx(xs, keep, i) ==
    IF i > Len(xs) THEN <<>>
    ELSE IF i \in keep THEN <<xs[i]>> \o SelectSeqIdx(xs, keep, i + 1)
    ELSE SelectSeqIdx(xs, keep, i + 1)

Filter(xs, keep) == SelectSeqIdx(xs, keep, 1)

Range(xs) == {xs[i] : i \in DOMAIN xs}

-----------------------------------------------------------------------------
(* Texts, byte strings and the splitter *)

chunk_size_text == 4000
chunk_overlap_text == 200
chunk_size_pdf == 3000
chunk_overlap_pdf == 150

Chars(n, c) == [i \in 1..n |-> c]

\* a 50-character README, the same length of blanks, a short text with
\* separators, and texts one character longer than each chunk size
ReadmeText == Chars(50, "x")
BlankText == Chars(50, " ")
ShortText == <<"d", "e", "f", " ", "g", "\n">>
LongText == Chars(chunk_size_text + 1, "y")
LongPdfText == Chars(chunk_size_pdf + 1, "z")
BigText == Chars(100001, "b")

\* texts of the largest size fetch_file_content displays, and one byte more
MediumText == Chars(500000, "m")
HugeText == Chars(500001, "h")

\* a text with every separator: words that fill a chunk and overlap into the
\* next, a blank line, and a word of chunk_size characters after a space
MixedText ==
    Chars(chunk_size_text - 200, "a") \o <<" ">> \o Chars(150, "b") \o <<" ">>
        \o Chars(100, "c") \o <<"\n", "\n">> \o Chars(10, "d") \o <<" ">>
        \o Chars(chunk_size_text, "e")

\* two pages of a PDF that together exceed the PDF chunk size
WordsPages == << Chars(chunk_size_pdf - 100, "m") \o <<" ">>, Chars(200, "n") >>

\* the bytes of a file: UTF-8 text, bytes that are no UTF-8, or a PDF with
\* the text of each of its pages ("" for a page without extractable text)
Utf8(t) == [kind |-> "utf8", text |-> t, pages |-> <<>>]
Binary == [kind |-> "binary", text |-> <<>>, pages |-> <<>>]
Pdf(pages) == [kind |-> "pdf", text |-> <<>>, pages |-> pages]

\* bytes.decode('utf-8') raises UnicodeDecodeError on bytes that are no UTF-8
CanDecode(bytes) == bytes.kind = "utf8"
decode(bytes) == bytes.text

\* RecursiveCharacterTextSplitter: its default separators, tried in order
Separators == << <<"\n", "\n">>, <<"\n">>, <<" ">>, <<>> >>

\* sep stands in text at place i
At(sep, text, i) == \A k \in 1..Len(sep) : text[i + k - 1] = sep[k]

\* re.search(separator, text)
Found(sep, text) == \E i \in 1..(Len(text) - Len(sep) + 1) : At(sep, text, i)

\* the number of times c stands immediately before place i + 1
RECURSIVE RunBefore(_, _, _)
RunBefore(text, i, c) ==
    IF i = 0 \/ text[i] # c THEN 0 ELSE 1 + RunBefore(text, i - 1, c)

\* where re.split finds the separator: the leftmost occurrences that do not
\* overlap (in a run of the separator's character, every Len(sep)-th place)
Matches(sep, text) ==
    {i \in 1..(Len(text) - Len(sep) + 1) :
        /\ At(sep, text, i)
        /\ RunBefore(text, i - 1, sep[1]) % Len(sep) = 0}

\* the places of `at` from lo on, in ascending order
RECURSIVE Ascending(_, _)
Ascending(at, lo) ==
    IF \A x \in at : x < lo THEN <<>>
    ELSE LET m == CHOOSE x \in at : x >= lo /\ \A y \in at : y >= lo => x <= y
         IN  <<m>> \o Ascending(at, m + 1)

\* _split_text_with_regex(text, separator, keep_separator=True): the text is
\* cut before every separator and the empty pieces are dropped
SplitKeep(text, sep) ==
    LET at == Ascending(Matches(sep, text), 1)
        n == Len(at)
        pieces == [k \in 1..(n + 1) |->
                    SubSeq(text,
                           IF k = 1 THEN 1 ELSE at[k - 1],
                           IF k = n + 1 THEN Len(text) ELSE at[k] - 1)]
    IN  Filter(pieces, {i \in DOMAIN pieces : pieces[i] # <<>>})

RECURSIVE Concat(_)
Concat(pieces) ==
    IF pieces = <<>> THEN <<>> ELSE Head(pieces) \o Concat(Tail(pieces))

\* _join_docs: the pieces joined and stripped, no chunk when nothing is left
JoinDocs(current) ==
    IF strip(Concat(current)) = <<>> THEN <<>> ELSE <<strip(Concat(current))>>

\* _merge_splits, the while loop: pieces leave the front of the window
\* (current is splits[lo..], total its length) until at most chunk_overlap
\* characters stay and the next piece fits; gives the new <<lo, total>>
RECURSIVE Shrink(_, _, _, _, _, _)
Shrink(splits, lo, total, next_len, chunk_size, chunk_overlap) ==
    IF \/ total > chunk_overlap
       \/ (total + next_len > chunk_size /\ total > 0)
    THEN Shrink(splits, lo + 1, total - Len(splits[lo]), next_len,
                chunk_size, chunk_overlap)
    ELSE <<lo, total>>

\* _merge_splits, the for loop at piece i with current = splits[lo..i-1] of
\* length total: the windows <<first piece, last piece>> it joins into chunks
RECURSIVE MergeFrom(_, _, _, _, _, _)
MergeFrom(splits, i, lo, total, chunk_size, chunk_overlap) ==
    IF i > Len(splits) THEN << <<lo, i - 1>> >>
    ELSE IF total + Len(splits[i]) > chunk_size /\ lo < i
    THEN LET kept == Shrink(splits, lo, total, Len(splits[i]),
                            chunk_size, chunk_overlap)
         IN  << <<lo, i - 1>> >>
             \o MergeFrom(splits, i + 1, kept[1], kept[2] + Len(splits[i]),
                          chunk_size, chunk_overlap)
    ELSE MergeFrom(splits, i + 1, lo, total + Len(splits[i]),
                   chunk_size, chunk_overlap)

\* the pieces merged into one chunk whatever their total length
merge_splits_whole(splits, chunk_size, chunk_overlap) == JoinDocs(splits)

\* _merge_splits(splits, ""): pieces are gathered while they fit chunk_size
merge_splits(splits, chunk_size, chunk_overlap) ==
    LET windows == MergeFrom(splits, 1, 1, 0, chunk_size, chunk_overlap)
    IN  Concat([w \in DOMAIN windows |->
                    JoinDocs(SubSeq(splits, windows[w][1], windows[w][2]))])

\* the windows _merge_splits cuts from one-character pieces: chunk_size
\* characters, the next one starting chunk_overlap before the end of the last
RECURSIVE Windows(_, _, _, _)
Windows(text, start, chunk_size, chunk_overlap) ==
    IF start + chunk_size - 1 >= Len(text)
    THEN <<SubSeq(text, start, Len(text))>>
    ELSE <<SubSeq(text, start, start + chunk_size - 1)>>
         \o Windows(text, start + chunk_size - chunk_overlap, chunk_size, chunk_overlap)

\* the last separator, "": the text is cut into characters and merged, which
\* gives the windows, each stripped and dropped when nothing is left
CharChunks(text, chunk_size, chunk_overlap) ==
    LET windows == Windows(text, 1, chunk_size, chunk_overlap)
    IN  Concat([i \in DOMAIN windows |-> JoinDocs(<<windows[i]>>)])

\* _split_text(text, separators[k:]): the first separator found in the text,
\* or the last one, "",
\* cuts it; the pieces shorter than chunk_size that stand together are merged,
\* a longer piece is split again with the separators that remain
RECURSIVE SplitTextFrom(_, _, _, _)
RECURSIVE Collect(_, _, _, _)
Collect(splits, k, chunk_size, chunk_overlap) ==
    LET long == {i \in DOMAIN splits : Len(splits[i]) >= chunk_size}
    IN  IF long = {} THEN merge_splits(splits, chunk_size, chunk_overlap)
        ELSE LET i == CHOOSE x \in long : \A y \in long : x <= y
             IN  merge_splits(SubSeq(splits, 1, i - 1), chunk_size, chunk_overlap)
                 \o SplitTextFrom(splits[i], k, chunk_size, chunk_overlap)
                 \o Collect(SubSeq(splits, i + 1, Len(splits)), k,
                            chunk_size, chunk_overlap)

SplitTextFrom(text, k, chunk_size, chunk_overlap) ==
    IF Separators[k] = <<>>
    THEN CharChunks(text, chunk_size, chunk_overlap)
    ELSE IF Found(Separators[k], text)
    THEN Collect(SplitKeep(text, Separators[k]), k + 1, chunk_size, chunk_overlap)
    ELSE SplitTextFrom(text, k + 1, chunk_size, chunk_overlap)

\* RecursiveCharacterTextSplitter(chunk_size, chunk_overlap).split_text(text)
split_text(text, chunk_size, chunk_overlap) ==
    SplitTextFrom(text, 1, chunk_size, chunk_overlap)

\* langchain Document: page_content and metadata (source, and the key "chunk"
\* or "chunk_id" when the code sets it)
Document(page_content, source, chunk, chunk_id) ==
    [page_content |-> page_content, source |-> source,
     chunk |-> chunk, chunk_id |-> chunk_id]

-----------------------------------------------------------------------------
(* The code-hosting service: repositories by owner/name *)

README_MD == <<"README", ".md">>
GithubPrefix == "https://github.com/"

File(name, path, size, bytes) ==
    [type |-> "file", name |-> name, path |-> path, size |-> size, bytes |-> bytes]
Dir(name, path) ==
    [type |-> "dir", name |-> name, path |-> path, size |-> 0, bytes |-> Binary]

\* a repository: its name and, per directory path, the entries get_contents lists
ReadmeOnlyRepo ==
    [name |-> <<"readme-only">>,
     listing |-> (<<>> :> <<File(README_MD, README_MD, 50, Utf8(ReadmeText))>>)]

BlankReadmeRepo ==
    [name |-> <<"blank-readme">>,
     listing |-> (<<>> :> <<File(README_MD, README_MD, 50, Utf8(BlankText))>>)]

AppRepo ==
    [name |-> <<"app">>,
     listing |->
        (<<>> :> << File(README_MD, README_MD, 6, Utf8(ShortText)),
                    Dir(<<"src">>, <<"src">>),
                    File(<<"LOGO", ".PNG">>, <<"LOGO", ".PNG">>, 10, Binary),
                    File(<<"big", ".txt">>, <<"big", ".txt">>, 100001, Utf8(BigText)),
                    Dir(<<"docs">>, <<"docs">>),
                    File(<<"data", ".dat">>, <<"data", ".dat">>, 7, Binary) >>)
        @@ (<<"src">> :> << File(<<"a", ".py">>, <<"src", "/", "a", ".py">>, 6,
                                 Utf8(ShortText)) >>)
        @@ (<<"docs">> :> << File(README_MD, <<"docs", "/">> \o README_MD, 50,
                                  Utf8(ReadmeText)) >>)]

NoReadmeRepo ==
    [name |-> <<"no-readme">>,
     listing |-> (<<>> :> <<File(<<"main", ".py">>, <<"main", ".py">>, 6,
                                 Utf8(ShortText))>>)]

\* files around the size fetch_file_content displays, one of them an image,
\* and a small .DS_Store whose bytes are UTF-8
SizesRepo ==
    [name |-> <<"sizes">>,
     listing |->
        (<<>> :> << File(<<".DS_Store">>, <<".DS_Store">>, 6, Utf8(ShortText)),
                    File(<<"medium", ".txt">>, <<"medium", ".txt">>, 500000,
                         Utf8(MediumText)),
                    File(<<"huge", ".txt">>, <<"huge", ".txt">>, 500001,
                         Utf8(HugeText)),
                    File(<<"photo", ".JPG">>, <<"photo", ".JPG">>, 500001,
                         Binary) >>)]

GithubRepos ==
    (<<"o", "/", "readme-only">> :> ReadmeOnlyRepo)
    @@ (<<"o", "/", "blank-readme">> :> BlankReadmeRepo)
    @@ (<<"o", "/", "app">> :> AppRepo)
    @@ (<<"o", "/", "no-readme">> :> NoReadmeRepo)
    @@ (<<"o", "/", "sizes">> :> SizesRepo)

\* the URLs clients send: the repositories above (one with a trailing slash)
\* and one the service does not know
RepoUrls ==
    { <<GithubPrefix, "o", "/", "readme-only">>,
      <<GithubPrefix, "o", "/", "blank-readme">>,
      <<GithubPrefix, "o", "/", "app", "/">>,
      <<GithubPrefix, "o", "/", "no-readme">>,
      <<GithubPrefix, "o", "/", "sizes">>,
      <<GithubPrefix, "o", "/", "missing">> }

-----------------------------------------------------------------------------
(* services.py *)

\* what a call returns or raises: raised is "none", "ValueError" or
\* "Exception" (any other exception class); error is str(e)
Returned(v) == [raised |-> "none", value |-> v, error |-> <<>>]
Raised(cls, msg) == [raised |-> cls, value |-> <<>>, error |-> msg]

binary_extensions ==
    { <<".png">>, <<".jpg">>, <<".jpeg">>, <<".gif">>, <<".ico">>, <<".zip">>,
      <<".pdf">>, <<".woff">>, <<".woff2">>, <<".DS_Store">> }

ingest_size_limit == 100000

\* services.py:54-55, the files the traversal skips
SkippedFile(fc) ==
    \/ \E ext \in binary_extensions \cup {<<"package-lock.json">>} :
            endswith(lower(fc.name), ext)
    \/ fc.size > ingest_size_limit

\* the chunks of one file, numbered from 1
FileChunksFromOne(source, text) ==
    LET chunks == split_text(text, chunk_size_text, chunk_overlap_text)
    IN  [i \in 1..Len(chunks) |-> Document(chunks[i], source, Some(i), None)]

\* services.py:61-66, the chunks of one file
FileChunks(source, text) ==
    LET chunks == split_text(text, chunk_size_text, chunk_overlap_text)
    IN  [i \in 1..Len(chunks) |-> Document(chunks[i], source, Some(i - 1), None)]

\* services.py:46-68, the worklist loop over the tree
RECURSIVE Traverse(_, _, _)
Traverse(repo, contents, docs) ==
    IF contents = <<>> THEN docs
    ELSE LET file_content == Head(contents)
             rest == Tail(contents)
         IN  IF file_content.type = "dir"
             THEN Traverse(repo, rest \o repo.listing[file_content.path], docs)
             ELSE IF SkippedFile(file_content) \/ ~CanDecode(file_content.bytes)
             THEN Traverse(repo, rest, docs)
             ELSE Traverse(repo, rest,
                           docs \o FileChunks(file_content.path,
                                              decode(file_content.bytes)))

\* services.py:190-205
RECURSIVE StructureLines(_, _, _)
StructureLines(repo, contents, indent) ==
    IF contents = <<>> THEN <<>>
    ELSE LET content == Head(contents)
         IN  (IF content.type = "dir"
              THEN indent \o <<"<dir> ">> \o content.name \o <<"/", "\n">>
                   \o StructureLines(repo, repo.listing[content.path],
                                     indent \o <<"  ">>)
              ELSE indent \o <<"<file> ">> \o content.name \o <<"\n">>)
             \o StructureLines(repo, Tail(contents), indent)

get_repo_structure(repo) == StructureLines(repo, repo.listing[<<>>], <<>>)

\* services.py:32-37: the README of the root, or the placeholder when
\* get_contents or the decoding raises
ReadmeDocument(repo) ==
    LET root == repo.listing[<<>>]
        at == {i \in DOMAIN root : root[i].path = README_MD}
    IN  IF \E i \in at : root[i].type = "file" /\ CanDecode(root[i].bytes)
        THEN LET i == CHOOSE i \in at : TRUE
             IN  Document(decode(root[i].bytes), README_MD, None, None)
        ELSE Document(<<"No README.md found in the repository.">>,
                      README_MD, None, None)

StructureDocument(repo) ==
    Document(<<"This is the repository file structure:", "\n">>
                \o get_repo_structure(repo),
             <<"Repository", " ", "Structure">>, None, None)

\* services.py:25
RepoPath(repo_url) ==
    LET s == remove(repo_url, GithubPrefix)
    IN  rstrip(lstrip(s, {"/"}), {"/"})

\* services.py:14-76.  token: GITHUB_TOKEN is set; api_ok: the service answers
\* every call of this fetch (any failure inside the try becomes a ValueError)
fetch_repo_docs(repo_url, token, api_ok) ==
    IF ~token
    THEN Raised("ValueError", <<"GitHub token not set.">>)
    ELSE IF RepoPath(repo_url) \notin DOMAIN GithubRepos
    THEN Raised("ValueError",
                <<"Failed to fetch repository '">> \o RepoPath(repo_url)
                    \o <<"': ", "Not Found">>)
    ELSE IF ~api_ok
    THEN Raised("ValueError", <<"An unexpected error occurred: ", "api">>)
    ELSE LET repo == GithubRepos[RepoPath(repo_url)]
         IN  Returned(Traverse(repo, repo.listing[<<>>],
                               <<ReadmeDocument(repo), StructureDocument(repo)>>))

\* the order of str on the names of the model, which differ in the first
\* lexeme of their lower-case form
NameOrder ==
    <<".ds_store", "a", "big", "data", "docs", "huge", "logo", "main", "medium", "photo",
      "readme", "src">>

NameRank(name) == CHOOSE k \in DOMAIN NameOrder : NameOrder[k] = lower(name)[1]

\* sorted(xs, key=lambda x: x.name.lower())
RECURSIVE SortedByName(_)
SortedByName(xs) ==
    IF xs = <<>> THEN <<>>
    ELSE LET first == CHOOSE i \in DOMAIN xs :
                        \A j \in DOMAIN xs :
                            \/ NameRank(xs[i].name) < NameRank(xs[j].name)
                            \/ NameRank(xs[i].name) = NameRank(xs[j].name) /\ i <= j
         IN  <<xs[first]>> \o SortedByName(Filter(xs, DOMAIN xs \ {first}))

tree_size_limit == 100000

\* the file item with the flag is_large taken at the size fetch_file_content
\* displays
FileNodeViewLimit(content) ==
    LET is_binary == \E ext \in binary_extensions : endswith(lower(content.name), ext)
        is_large == content.size > 500000
    IN  [name |-> content.name, type |-> "file", path |-> content.path,
         size |-> content.size, is_binary |-> is_binary, is_large |-> is_large,
         viewable |-> ~(is_binary \/ is_large), children |-> <<>>]

\* services.py:129-141
FileNode(content) ==
    LET is_binary == \E ext \in binary_extensions : endswith(lower(content.name), ext)
        is_large == content.size > tree_size_limit
    IN  [name |-> content.name, type |-> "file", path |-> content.path,
         size |-> content.size, is_binary |-> is_binary, is_large |-> is_large,
         viewable |-> ~(is_binary \/ is_large), children |-> <<>>]

\* services.py:110-148
RECURSIVE build_tree_structure(_, _)
build_tree_structure(repo, path) ==
    LET contents == repo.listing[path]
        directories == SortedByName(Filter(contents,
                            {i \in DOMAIN contents : contents[i].type = "dir"}))
        files == SortedByName(Filter(contents,
                            {i \in DOMAIN contents : contents[i].type = "file"}))
    IN  [i \in DOMAIN directories |->
            [name |-> directories[i].name, type |-> "directory",
             path |-> directories[i].path, size |-> 0, is_binary |-> FALSE,
             is_large |-> FALSE, viewable |-> FALSE,
             children |-> build_tree_structure(repo, directories[i].path)]]
        \o [i \in DOMAIN files |-> FileNode(files[i])]

\* services.py:79-107
fetch_repo_tree(repo_url, token, api_ok) ==
    IF ~token
    THEN Raised("ValueError", <<"GitHub token not set.">>)
    ELSE IF RepoPath(repo_url) \notin DOMAIN GithubRepos
    THEN Raised("ValueError",
                <<"Failed to fetch repository '">> \o RepoPath(repo_url)
                    \o <<"': ", "Not Found">>)
    ELSE IF ~api_ok
    THEN Raised("ValueError", <<"An unexpected error occurred: ", "api">>)
    ELSE LET repo == GithubRepos[RepoPath(repo_url)]
         IN  Returned([name |-> repo.name, type |-> "repository", path |-> <<>>,
                       children |-> build_tree_structure(repo, <<>>)])

\* repo.get_contents(file_path) for the path of a file: the entries with
\* this path, in any directory
EntriesAt(repo, file_path) ==
    {e \in UNION {Range(repo.listing[d]) : d \in DOMAIN repo.listing} :
        e.path = file_path}

view_size_limit == 500000

FileView(path, content, error, is_binary, size) ==
    [path |-> path, content |-> content, error |-> error,
     is_binary |-> is_binary, size |-> size]

\* services.py:151-187.  A path the repository does not hold raises in
\* get_contents, and a directory has no size: both end as a ValueError.
fetch_file_content(repo_url, file_path, token, api_ok) ==
    IF ~token
    THEN Raised("ValueError", <<"GitHub token not set.">>)
    ELSE IF RepoPath(repo_url) \notin DOMAIN GithubRepos
    THEN Raised("ValueError",
                <<"Failed to fetch file '">> \o file_path \o <<"': ", "Not Found">>)
    ELSE IF ~api_ok
    THEN Raised("ValueError", <<"An unexpected error occurred: ", "api">>)
    ELSE LET repo == GithubRepos[RepoPath(repo_url)]
             found == EntriesAt(repo, file_path)
         IN  IF found = {}
             THEN Raised("ValueError",
                         <<"Failed to fetch file '">> \o file_path \o <<"': ", "Not Found">>)
             ELSE LET file_content == CHOOSE e \in found : TRUE
                      is_binary == \E ext \in binary_extensions :
                                        endswith(lower(file_path), ext)
                      is_large == file_content.size > view_size_limit
                  IN  IF file_content.type = "dir"
                      THEN Raised("ValueError",
                                  <<"An unexpected error occurred: ", "no attribute 'size'">>)
                      ELSE IF is_binary
                      THEN Returned(FileView(file_path, None,
                                Some(<<"Binary file - content not displayable">>),
                                TRUE, file_content.size))
                      ELSE IF is_large
                      THEN Returned(FileView(file_path, None,
                                Some(<<"File too large to display">>),
                                FALSE, file_content.size))
                      ELSE IF CanDecode(file_content.bytes)
                      THEN Returned(FileView(file_path,
                                Some(decode(file_content.bytes)), None,
                                FALSE, file_content.size))
                      ELSE Returned(FileView(file_path, None,
                                Some(<<"File contains non-UTF-8 content and cannot be displayed">>),
                                TRUE, file_content.size))

\* services.py:208-236; the stream carries the client's filename
process_uploaded_file_docs(filename, bytes) ==
    IF ~(endswith(lower(filename), <<".md">>) \/ endswith(lower(filename), <<".txt">>))
    THEN Raised("ValueError", <<"Unsupported file type for this function.">>)
    ELSE IF ~CanDecode(bytes)
    THEN Raised("Exception", <<"'utf-8' codec can't decode">>)
    ELSE IF strip(decode(bytes)) = <<>>
    THEN Returned(<<>>)
    ELSE Returned(FileChunks(filename, decode(bytes)))

\* services.py:249-252: the text of the pages that have some
RECURSIVE PagesText(_)
PagesText(pages) ==
    IF pages = <<>> THEN <<>> ELSE Head(pages) \o PagesText(Tail(pages))

\* services.py:238-270
process_pdf_file_and_chunk(filename, bytes) ==
    IF bytes.kind # "pdf"
    THEN Raised("ValueError",
                <<"Could not read the provided PDF stream: ", "EOF marker not found">>)
    ELSE LET raw_text == PagesText(bytes.pages)
             chunks == split_text(raw_text, chunk_size_pdf, chunk_overlap_pdf)
         IN  IF strip(raw_text) = <<>>
             THEN Returned(<<>>)
             ELSE Returned([i \in 1..Len(chunks) |->
                                Document(chunks[i], filename, None, Some(i - 1))])

-----------------------------------------------------------------------------
(* Uploads *)

\* lexemes made only of characters outside [A-Za-z0-9_.-] after the ASCII
\* normalisation of secure_filename
NonAsciiLex == {"<non-ascii>"}

\* werkzeug secure_filename: drop what is not ASCII, turn path separators
\* and whitespace runs into "_", and strip dots and underscores off both
\* ends.  On the filenames below the last step removes a lexeme made of dots
\* alone.
secure_filename(filename) ==
    LET ascii == Filter(filename, {i \in DOMAIN filename : filename[i] \notin NonAsciiLex})
        spaced == [i \in DOMAIN ascii |->
                    IF ascii[i] \in Whitespace \cup {"/"} THEN " " ELSE ascii[i]]
        words == split(spaced, " ")
        under == join(<<"_">>, Filter(words, {i \in DOMAIN words : words[i] # <<>>}))
    IN  rstrip(lstrip(under, {"..", ".", "_"}), {"..", ".", "_"})

\* request.files['file']: the client's filename, the mimetype and the bytes
Upload(filename, mimetype, bytes) ==
    [filename |-> filename, mimetype |-> mimetype, bytes |-> bytes]

NotesMd == Upload(<<"notes", ".md">>, "text/markdown", Utf8(ShortText))
LongTxt == Upload(<<"long", ".TXT">>, "text/plain", Utf8(LongText))
BlankTxt == Upload(<<"blank", ".txt">>, "text/plain", Utf8(BlankText))
BadTxt == Upload(<<"bad", ".txt">>, "text/plain", Binary)
MixedMd == Upload(<<"mixed", ".md">>, "text/markdown", Utf8(MixedText))
WordsPdf == Upload(<<"words", ".pdf">>, "application/pdf", Pdf(WordsPages))
PaperPdf == Upload(<<"paper", ".pdf">>, "application/pdf", Pdf(<<LongPdfText>>))
ScanPdf == Upload(<<"scan", ".pdf">>, "application/pdf", Pdf(<<<<>>, <<>>>>))
DotsPdf == Upload(<<"..">>, "application/pdf", Pdf(<<ShortText, <<>>, ShortText>>))
Unnamed == Upload(<<>>, "application/octet-stream", Binary)

\* what clients send to load_file and to load_pdf
TextUploads == {NotesMd, LongTxt, BlankTxt, BadTxt, MixedMd, PaperPdf, Unnamed}
PdfUploads == {PaperPdf, ScanPdf, DotsPdf, WordsPdf, NotesMd, Unnamed}

-----------------------------------------------------------------------------
(* routes.py: the session and the request being served *)

SessionInit ==
    [docs |-> None, file_manifest |-> None, repo_url |-> None, pdf_docs |-> None,
     document_filename |-> None, document_content |-> None,
     document_mimetype |-> None]

NoUpload == Upload(<<>>, "", Binary)

\* the corpus fields of the session
CorpusFields == {"docs", "file_manifest", "repo_url", "pdf_docs"}
Corpus(session) == [f \in CorpusFields |-> session[f]]

\* a response: kind "ok" or "error" (a value the handler returned, with its
\* status) or "unhandled" (an exception left the handler); error is the JSON
\* field "error"; body is what a success carries: the answer text ("response"),
\* the number of chunks a load reports, a tree, a file view
Response(kind, status, error, body) ==
    [kind |-> kind, status |-> status, error |-> error, body |-> body]

NoResponse == Response("none", 0, None, None)

Ok(body) == Response("ok", 200, None, Some(body))
Error(status, msg) == Response("error", status, Some(msg), None)
Unhandled(msg) == Response("unhandled", 500, Some(msg), None)

\* no request is being served.  The fields are the handlers' locals: docs the
\* chunks a load produced; all_docs, file_manifest and pdf_docs what a question
\* handler read from the session when it started; planned the planner's parsed
\* list (relevant_file_paths or relevant_chunk_ids; file_manifest holds the
\* chunk manifest of a PDF question once it is built); context the assembled
\* context, None until it is built; calls the LLM calls made so far, in order;
\* before is the ghost copy of the corpus fields a load handler found when it
\* started
Idle ==
    [op |-> "none", pc |-> "idle",
     url |-> <<>>, file |-> NoUpload, question |-> <<>>,
     docs |-> <<>>, raised |-> Returned(<<>>),
     all_docs |-> None, file_manifest |-> None, pdf_docs |-> None,
     intent |-> <<>>, query_type |-> <<>>,
     planned |-> <<>>, relevant_docs |-> <<>>, context |-> None,
     calls |-> <<>>,
     before |-> Corpus(SessionInit),
     result |-> NoResponse]

\* requests are served one at a time: a handler starts when none is running
AtRest == req.pc = "idle"

\* a handler starts: its locals are fresh
Begin(op, pc) ==
    [Idle EXCEPT !.op = op, !.pc = pc,
                 !.before = IF op \in {"load_repo", "load_file", "load_pdf"}
                            THEN Corpus(session_data) ELSE @]

\* a handler returns
Return(result) == [req EXCEPT !.pc = "done", !.result = result]

\* the ghost record of a finished load (the handler and whether it returned
\* success): hist keeps the last two
Remember(entry) ==
    IF hist = <<>> THEN <<entry>> ELSE <<hist[Len(hist)], entry>>

LoadEntry(op, ok) == [op |-> op, ok |-> ok]

\* routes.py:64 and 109
Manifest(docs) == join(<<"\n">>, [i \in DOMAIN docs |-> docs[i].source])

Init ==
    /\ session_data = SessionInit
    /\ req = Idle
    /\ hist = <<>>
    /\ parked = Idle

\* a load handler returns: the response, and the ghost record of the load
Finish(result) ==
    /\ req' = Return(result)
    /\ hist' = Remember(LoadEntry(req.op, result.kind = "ok"))
    /\ UNCHANGED parked

Goto(pc) == req' = [req EXCEPT !.pc = pc]

\* session_data[field] = value
Store(field, value) == session_data' = [session_data EXCEPT ![field] = value]

\* a JSON body: None for the JSON value null, else the value data.get(key)
\* gives, None when the key is missing
JsonBodies(values) == {None} \cup {Some(None)} \cup {Some(Some(v)) : v \in values}

-----------------------------------------------------------------------------
(* POST /api/load_repo, routes.py:44-75 *)

\* routes.py:48-52
load_repo_start(body) ==
    /\ AtRest
    /\ session_data' = session_data
    /\ IF IsNone(body)
       THEN /\ req' = [Begin("load_repo", "done") EXCEPT
                         !.result = Unhandled(<<"AttributeError">>)]
            /\ hist' = Remember(LoadEntry("load_repo", FALSE))
            /\ UNCHANGED parked
       ELSE IF ~Truthy(Val(body))
       THEN /\ req' = [Begin("load_repo", "done") EXCEPT
                         !.result = Error(400, <<"Repository URL is required">>)]
            /\ hist' = Remember(LoadEntry("load_repo", FALSE))
            /\ UNCHANGED parked
       ELSE /\ req' = [Begin("load_repo", "lr_clear_pdf_docs") EXCEPT
                         !.url = Val(Val(body))]
            /\ hist' = hist
            /\ UNCHANGED parked

\* load_repo without line 56: the PDF corpus is left in place
load_repo_keeps_pdf_docs ==
    /\ req.pc = "lr_clear_pdf_docs"
    /\ session_data' = session_data
    /\ Goto("lr_clear_document_filename")
    /\ UNCHANGED <<hist, parked>>

\* routes.py:56
load_repo_clear_pdf_docs ==
    /\ req.pc = "lr_clear_pdf_docs"
    /\ Store("pdf_docs", None)
    /\ Goto("lr_clear_document_filename")
    /\ UNCHANGED <<hist, parked>>

\* routes.py:57
load_repo_clear_document_filename ==
    /\ req.pc = "lr_clear_document_filename"
    /\ Store("document_filename", None)
    /\ Goto("lr_clear_document_content")
    /\ UNCHANGED <<hist, parked>>

\* routes.py:58
load_repo_clear_document_content ==
    /\ req.pc = "lr_clear_document_content"
    /\ Store("document_content", None)
    /\ Goto("lr_clear_document_mimetype")
    /\ UNCHANGED <<hist, parked>>

\* routes.py:59
load_repo_clear_document_mimetype ==
    /\ req.pc = "lr_clear_document_mimetype"
    /\ Store("document_mimetype", None)
    /\ Goto("lr_fetch")
    /\ UNCHANGED <<hist, parked>>

\* load_repo with the URL stored before the repository is fetched
load_repo_fetch_stores_url(token, api_ok) ==
    /\ req.pc = "lr_fetch"
    /\ Store("repo_url", Some(req.url))
    /\ LET r == fetch_repo_docs(req.url, token, api_ok)
       IN  IF r.raised = "none"
           THEN /\ req' = [req EXCEPT !.pc = "lr_set_docs", !.docs = r.value]
                /\ hist' = hist
                /\ UNCHANGED parked
           ELSE Finish(Error(400, r.error))

\* routes.py:61 and 71-72
load_repo_fetch(token, api_ok) ==
    /\ req.pc = "lr_fetch"
    /\ session_data' = session_data
    /\ LET r == fetch_repo_docs(req.url, token, api_ok)
       IN  IF r.raised = "none"
           THEN /\ req' = [req EXCEPT !.pc = "lr_set_docs", !.docs = r.value]
                /\ hist' = hist
                /\ UNCHANGED parked
           ELSE Finish(Error(400, r.error))

\* routes.py:62
load_repo_set_docs ==
    /\ req.pc = "lr_set_docs"
    /\ Store("docs", Some(req.docs))
    /\ Goto("lr_set_file_manifest")
    /\ UNCHANGED <<hist, parked>>

\* routes.py:64-65
load_repo_set_file_manifest ==
    /\ req.pc = "lr_set_file_manifest"
    /\ Store("file_manifest", Some(Manifest(req.docs)))
    /\ Goto("lr_set_repo_url")
    /\ UNCHANGED <<hist, parked>>

\* routes.py:67-69
load_repo_set_repo_url ==
    /\ req.pc = "lr_set_repo_url"
    /\ Store("repo_url", Some(req.url))
    /\ Finish(Ok(Len(req.docs)))

load_repo_route ==
    \/ \E body \in JsonBodies(RepoUrls \cup {<<>>}) : load_repo_start(body)
    \/ load_repo_clear_pdf_docs
    \/ load_repo_clear_document_filename
    \/ load_repo_clear_document_content
    \/ load_repo_clear_document_mimetype
    \/ \E token, api_ok \in BOOLEAN : load_repo_fetch(token, api_ok)
    \/ load_repo_set_docs
    \/ load_repo_set_file_manifest
    \/ load_repo_set_repo_url

-----------------------------------------------------------------------------
(* POST /api/load_file, routes.py:78-118 *)

\* request.files: no 'file' part, or an upload
FileParts(uploads) == {None} \cup {Some(f) : f \in uploads}

\* routes.py:82-86
load_file_start(part) ==
    /\ AtRest
    /\ session_data' = session_data
    /\ IF IsNone(part)
       THEN /\ req' = [Begin("load_file", "done") EXCEPT
                         !.result = Error(400, <<"No file part in the request">>)]
            /\ hist' = Remember(LoadEntry("load_file", FALSE))
            /\ UNCHANGED parked
       ELSE IF Val(part).filename = <<>>
       THEN /\ req' = [Begin("load_file", "done") EXCEPT
                         !.result = Error(400, <<"No selected file">>)]
            /\ hist' = Remember(LoadEntry("load_file", FALSE))
            /\ UNCHANGED parked
       ELSE /\ req' = [Begin("load_file", "lf_update") EXCEPT !.file = Val(part)]
            /\ hist' = hist
            /\ UNCHANGED parked

\* load_file whose update leaves out "repo_url"
load_file_update_keeps_repo_url ==
    /\ req.pc = "lf_update"
    /\ session_data' = [session_data EXCEPT !.pdf_docs = None,
                                            !.docs = None, !.file_manifest = None]
    /\ Goto("lf_set_document_filename")
    /\ UNCHANGED <<hist, parked>>

\* routes.py:90-92, one dict.update call
load_file_update ==
    /\ req.pc = "lf_update"
    /\ session_data' = [session_data EXCEPT !.pdf_docs = None, !.repo_url = None,
                                            !.docs = None, !.file_manifest = None]
    /\ Goto("lf_set_document_filename")
    /\ UNCHANGED <<hist, parked>>

\* routes.py:95-98
load_file_set_document_filename ==
    /\ req.pc = "lf_set_document_filename"
    /\ Store("document_filename", Some(secure_filename(req.file.filename)))
    /\ Goto("lf_set_document_content")
    /\ UNCHANGED <<hist, parked>>

\* routes.py:99
load_file_set_document_content ==
    /\ req.pc = "lf_set_document_content"
    /\ Store("document_content", Some(req.file.bytes))
    /\ Goto("lf_set_document_mimetype")
    /\ UNCHANGED <<hist, parked>>

\* routes.py:100
load_file_set_document_mimetype ==
    /\ req.pc = "lf_set_document_mimetype"
    /\ Store("document_mimetype", Some(req.file.mimetype))
    /\ Goto("lf_process")
    /\ UNCHANGED <<hist, parked>>

\* routes.py:103-106 and 114-118
load_file_process ==
    /\ req.pc = "lf_process"
    /\ session_data' = session_data
    /\ LET r == process_uploaded_file_docs(req.file.filename, req.file.bytes)
       IN  CASE r.raised = "none" ->
                    /\ req' = [req EXCEPT !.pc = "lf_set_docs", !.docs = r.value]
                    /\ hist' = hist
                    /\ UNCHANGED parked
             [] r.raised = "ValueError" ->
                    Finish(Error(400, r.error))
             [] r.raised = "Exception" ->
                    Finish(Error(500, <<"An unexpected server error occurred.">>))

\* routes.py:107
load_file_set_docs ==
    /\ req.pc = "lf_set_docs"
    /\ Store("docs", Some(req.docs))
    /\ Goto("lf_set_file_manifest")
    /\ UNCHANGED <<hist, parked>>

\* routes.py:109-112
load_file_set_file_manifest ==
    /\ req.pc = "lf_set_file_manifest"
    /\ Store("file_manifest", Some(Manifest(req.docs)))
    /\ Finish(Ok(Len(req.docs)))

load_file_route ==
    \/ \E part \in FileParts(TextUploads) : load_file_start(part)
    \/ load_file_update
    \/ load_file_set_document_filename
    \/ load_file_set_document_content
    \/ load_file_set_document_mimetype
    \/ load_file_process
    \/ load_file_set_docs
    \/ load_file_set_file_manifest

-----------------------------------------------------------------------------
(* POST /api/load_pdf, routes.py:121-161 *)

\* routes.py:125-130
load_pdf_start(part) ==
    /\ AtRest
    /\ session_data' = session_data
    /\ IF IsNone(part)
       THEN /\ req' = [Begin("load_pdf", "done") EXCEPT
                         !.result = Error(400, <<"No file was included in the request.">>)]
            /\ hist' = Remember(LoadEntry("load_pdf", FALSE))
            /\ UNCHANGED parked
       ELSE IF Val(part).filename = <<>>
       THEN /\ req' = [Begin("load_pdf", "done") EXCEPT
                         !.result = Error(400, <<"No file was selected.">>)]
            /\ hist' = Remember(LoadEntry("load_pdf", FALSE))
            /\ UNCHANGED parked
       ELSE /\ req' = [Begin("load_pdf", "lp_update") EXCEPT !.file = Val(part)]
            /\ hist' = hist
            /\ UNCHANGED parked

\* routes.py:134-136, one dict.update call
load_pdf_update ==
    /\ req.pc = "lp_update"
    /\ session_data' = [session_data EXCEPT !.docs = None, !.repo_url = None,
                                            !.pdf_docs = None, !.file_manifest = None]
    /\ Goto("lp_set_document_filename")
    /\ UNCHANGED <<hist, parked>>

\* routes.py:139-142
load_pdf_set_document_filename ==
    /\ req.pc = "lp_set_document_filename"
    /\ Store("document_filename", Some(secure_filename(req.file.filename)))
    /\ Goto("lp_set_document_content")
    /\ UNCHANGED <<hist, parked>>

\* routes.py:143
load_pdf_set_document_content ==
    /\ req.pc = "lp_set_document_content"
    /\ Store("document_content", Some(req.file.bytes))
    /\ Goto("lp_set_document_mimetype")
    /\ UNCHANGED <<hist, parked>>

\* routes.py:144
load_pdf_set_document_mimetype ==
    /\ req.pc = "lp_set_document_mimetype"
    /\ Store("document_mimetype", Some(req.file.mimetype))
    /\ Goto("lp_process")
    /\ UNCHANGED <<hist, parked>>

\* routes.py:147-150 and 157-158
load_pdf_process ==
    /\ req.pc = "lp_process"
    /\ session_data' = session_data
    /\ LET r == process_pdf_file_and_chunk(req.file.filename, req.file.bytes)
       IN  IF r.raised = "none"
           THEN /\ req' = [req EXCEPT !.pc = "lp_set_pdf_docs", !.docs = r.value]
                /\ hist' = hist
                /\ UNCHANGED parked
           ELSE Finish(Error(400, r.error))

\* routes.py:151-155
load_pdf_set_pdf_docs ==
    /\ req.pc = "lp_set_pdf_docs"
    /\ Store("pdf_docs", Some(req.docs))
    /\ Finish(Ok(Len(req.docs)))

load_pdf_route ==
    \/ \E part \in FileParts(PdfUploads) : load_pdf_start(part)
    \/ load_pdf_update
    \/ load_pdf_set_document_filename
    \/ load_pdf_set_document_content
    \/ load_pdf_set_document_mimetype
    \/ load_pdf_process
    \/ load_pdf_set_pdf_docs

-----------------------------------------------------------------------------
(* The hosted LLM: chain.invoke returns a text or raises *)

LLMErrors == { <<"504 Deadline Exceeded">>, <<"429 Resource exhausted">> }

\* what a free-text prompt (small talk, answer) may return
LLMTexts == { <<"Sure.">>, <<"It is a Flask app.">> }

LLMOutcomes(texts) ==
    {Returned(t) : t \in texts} \cup {Raised("Exception", e) : e \in LLMErrors}

Call(stage, outcome) == [stage |-> stage, outcome |-> outcome]

-----------------------------------------------------------------------------
(* POST /api/ask_question, routes.py:164-314 *)

Questions == { <<>>, <<"thanks!">> }

IntentOutputs ==
    { <<"technical_question">>, <<"conversational_reply">>,
      <<"Intent:", " ", "Conversational_Reply", "\n">> }

QueryTypeOutputs ==
    { <<"specific_query">>, <<"broad_query">>, <<"Broad_Query", ".">> }

\* the planner's answer: up to MaxPlanned pieces joined by commas
MaxPlanned == 2

PlannerPieces ==
    { README_MD, <<" ", "src", "/", "a", ".py", " ">>, <<"notes", ".md">>,
      <<"setup", ".py">>, <<" ">> }

RECURSIVE SeqsUpTo(_, _)
SeqsUpTo(S, n) ==
    IF n = 0 THEN {<<>>}
    ELSE LET shorter == SeqsUpTo(S, n - 1)
         IN  shorter \cup {Append(q, x) : q \in {r \in shorter : Len(r) = n - 1}, x \in S}

PlannerOutputs ==
    {join(<<",">>, q) : q \in SeqsUpTo(PlannerPieces, MaxPlanned)}

\* routes.py:312-314
AskFailure(e) ==
    Error(500, <<"Failed to get a response from the AI. Error: ">> \o e)

\* routes.py:174-183
ask_question_start(body) ==
    /\ AtRest
    /\ UNCHANGED <<session_data, hist, parked>>
    /\ IF IsNone(body)
       THEN req' = [Begin("ask_question", "done") EXCEPT
                      !.result = Unhandled(<<"AttributeError">>)]
       ELSE IF ~Truthy(Val(body))
       THEN req' = [Begin("ask_question", "done") EXCEPT
                      !.all_docs = session_data.docs,
                      !.file_manifest = session_data.file_manifest,
                      !.result = Error(400, <<"A question is required">>)]
       ELSE IF ~Truthy(session_data.docs)
       THEN req' = [Begin("ask_question", "done") EXCEPT
                      !.question = Val(Val(body)),
                      !.all_docs = session_data.docs,
                      !.file_manifest = session_data.file_manifest,
                      !.result = Error(400, <<"Please load a repository or file first.">>)]
       ELSE req' = [Begin("ask_question", "aq_intent") EXCEPT
                      !.question = Val(Val(body)),
                      !.all_docs = session_data.docs,
                      !.file_manifest = session_data.file_manifest]

\* the intent test without .lower()
ask_question_intent_case_sensitive(outcome) ==
    /\ req.pc = "aq_intent"
    /\ UNCHANGED <<session_data, hist, parked>>
    /\ LET called == [req EXCEPT !.calls = Append(@, Call("intent", outcome))]
       IN  IF outcome.raised # "none"
           THEN req' = [called EXCEPT !.pc = "done", !.result = AskFailure(outcome.error)]
           ELSE req' = [called EXCEPT
                          !.intent = outcome.value,
                          !.pc = IF Contains(<<"conversational_reply">>, outcome.value)
                                 THEN "aq_conversation" ELSE "aq_query_type"]

\* routes.py:204-209
ask_question_intent(outcome) ==
    /\ req.pc = "aq_intent"
    /\ UNCHANGED <<session_data, hist, parked>>
    /\ LET called == [req EXCEPT !.calls = Append(@, Call("intent", outcome))]
       IN  IF outcome.raised # "none"
           THEN req' = [called EXCEPT !.pc = "done", !.result = AskFailure(outcome.error)]
           ELSE req' = [called EXCEPT
                          !.intent = outcome.value,
                          !.pc = IF Contains(<<"conversational_reply">>, lower(outcome.value))
                                 THEN "aq_conversation" ELSE "aq_query_type"]

\* routes.py:210-220
ask_question_conversation(outcome) ==
    /\ req.pc = "aq_conversation"
    /\ UNCHANGED <<session_data, hist, parked>>
    /\ LET called == [req EXCEPT !.calls = Append(@, Call("conversation", outcome))]
       IN  IF outcome.raised # "none"
           THEN req' = [called EXCEPT !.pc = "done", !.result = AskFailure(outcome.error)]
           ELSE req' = [called EXCEPT !.pc = "done", !.result = Ok(outcome.value)]

\* routes.py:240-249
ask_question_query_type(outcome) ==
    /\ req.pc = "aq_query_type"
    /\ UNCHANGED <<session_data, hist, parked>>
    /\ LET called == [req EXCEPT !.calls = Append(@, Call("query_type", outcome))]
       IN  IF outcome.raised # "none"
           THEN req' = [called EXCEPT !.pc = "done", !.result = AskFailure(outcome.error)]
           ELSE IF Contains(<<"broad_query">>, lower(outcome.value))
           THEN req' = [called EXCEPT !.query_type = outcome.value,
                                      !.relevant_docs = Val(req.all_docs),
                                      !.pc = "aq_responder"]
           ELSE req' = [called EXCEPT !.query_type = outcome.value,
                                      !.pc = "aq_planner"]

\* routes.py:270
RelevantFilePaths(relevant_files_str) ==
    LET parts == split(relevant_files_str, ",")
        kept == Filter(parts, {i \in DOMAIN parts : strip(parts[i]) # <<>>})
    IN  [i \in DOMAIN kept |-> strip(kept[i])]

\* the fallback taking only the chunks whose source is "README.md"
SelectRelevantDocsExactReadme(all_docs, relevant_file_paths) ==
    LET named == Filter(all_docs, {i \in DOMAIN all_docs :
                            all_docs[i].source \in Range(relevant_file_paths)})
    IN  IF named = <<>>
        THEN Filter(all_docs, {i \in DOMAIN all_docs : all_docs[i].source = README_MD})
        ELSE named

\* routes.py:273-276
SelectRelevantDocs(all_docs, relevant_file_paths) ==
    LET named == Filter(all_docs, {i \in DOMAIN all_docs :
                            all_docs[i].source \in Range(relevant_file_paths)})
    IN  IF named = <<>>
        THEN Filter(all_docs, {i \in DOMAIN all_docs :
                        Contains(README_MD, all_docs[i].source)})
        ELSE named

\* routes.py:267-276
ask_question_planner(outcome) ==
    /\ req.pc = "aq_planner"
    /\ UNCHANGED <<session_data, hist, parked>>
    /\ LET called == [req EXCEPT !.calls = Append(@, Call("planner", outcome))]
       IN  IF outcome.raised # "none"
           THEN req' = [called EXCEPT !.pc = "done", !.result = AskFailure(outcome.error)]
           ELSE req' = [called EXCEPT
                          !.planned = RelevantFilePaths(outcome.value),
                          !.relevant_docs =
                              SelectRelevantDocs(Val(req.all_docs),
                                                 RelevantFilePaths(outcome.value)),
                          !.pc = "aq_responder"]

\* routes.py:279-281
ContextForResponder(relevant_docs) ==
    join(<<"\n\n---\n\n">>,
         [i \in DOMAIN relevant_docs |->
            <<"File: ">> \o relevant_docs[i].source \o <<"\n\nContent:\n">>
                \o relevant_docs[i].page_content])

\* the answer call made a second time when it raises
ask_question_responder_retries(outcome) ==
    /\ req.pc = "aq_responder"
    /\ UNCHANGED <<session_data, hist, parked>>
    /\ LET called == [req EXCEPT
                        !.context = Some(ContextForResponder(req.relevant_docs)),
                        !.calls = Append(@, Call("responder", outcome))]
       IN  IF outcome.raised # "none"
           THEN \E again \in LLMOutcomes(LLMTexts) :
                    req' = [called EXCEPT
                              !.calls = Append(@, Call("responder", again)),
                              !.pc = "done",
                              !.result = IF again.raised # "none"
                                         THEN AskFailure(again.error)
                                         ELSE Ok(again.value)]
           ELSE req' = [called EXCEPT !.pc = "done", !.result = Ok(outcome.value)]

\* routes.py:279-310
ask_question_responder(outcome) ==
    /\ req.pc = "aq_responder"
    /\ UNCHANGED <<session_data, hist, parked>>
    /\ LET called == [req EXCEPT
                        !.context = Some(ContextForResponder(req.relevant_docs)),
                        !.calls = Append(@, Call("responder", outcome))]
       IN  IF outcome.raised # "none"
           THEN req' = [called EXCEPT !.pc = "done", !.result = AskFailure(outcome.error)]
           ELSE req' = [called EXCEPT !.pc = "done", !.result = Ok(outcome.value)]

ask_question_route ==
    \/ \E body \in JsonBodies(Questions) : ask_question_start(body)
    \/ \E outcome \in LLMOutcomes(IntentOutputs) : ask_question_intent(outcome)
    \/ \E outcome \in LLMOutcomes(LLMTexts) : ask_question_conversation(outcome)
    \/ \E outcome \in LLMOutcomes(QueryTypeOutputs) : ask_question_query_type(outcome)
    \/ \E outcome \in LLMOutcomes(PlannerOutputs) : ask_question_planner(outcome)
    \/ \E outcome \in LLMOutcomes(LLMTexts) : ask_question_responder(outcome)

-----------------------------------------------------------------------------
(* POST /api/ask_pdf_question, routes.py:317-434 *)

PdfIntentOutputs ==
    { <<"pdf_query">>, <<"general_chat">>, <<"GENERAL_CHAT", "\n">> }

Digits == <<"0", "1", "2", "3", "4", "5", "6", "7", "8", "9">>

\* a character str.isdigit accepts and int rejects
SuperscriptTwo == "<superscript two>"

PdfPlannerPieces ==
    { <<"0">>, <<" ", "1">>, <<"1", "2">>, <<"none">>, <<SuperscriptTwo>> }

PdfPlannerOutputs ==
    {join(<<",">>, q) : q \in SeqsUpTo(PdfPlannerPieces, MaxPlanned)}

\* str(i) for i >= 0
RECURSIVE str(_)
str(i) == IF i < 10 THEN <<Digits[i + 1]>> ELSE str(i \div 10) \o <<Digits[(i % 10) + 1]>>

\* s.isdigit()
isdigit(s) == s # <<>> /\ Range(s) \subseteq Range(Digits) \cup {SuperscriptTwo}

\* int(s) raises ValueError unless s is made of decimal digits
CanInt(s) == s # <<>> /\ Range(s) \subseteq Range(Digits)

RECURSIVE int(_)
int(s) ==
    IF s = <<>> THEN 0
    ELSE int(SubSeq(s, 1, Len(s) - 1)) * 10
            + (CHOOSE d \in 0..9 : Digits[d + 1] = s[Len(s)])

\* routes.py:432-434
AskPdfFailure(e) ==
    Error(500, <<"An AI error occurred while answering the question about the PDF. Error: ">> \o e)

\* routes.py:323-330
ask_pdf_question_start(body) ==
    /\ AtRest
    /\ UNCHANGED <<session_data, hist, parked>>
    /\ IF IsNone(body)
       THEN req' = [Begin("ask_pdf_question", "done") EXCEPT
                      !.result = Unhandled(<<"AttributeError">>)]
       ELSE IF ~Truthy(Val(body))
       THEN req' = [Begin("ask_pdf_question", "done") EXCEPT
                      !.pdf_docs = session_data.pdf_docs,
                      !.result = Error(400, <<"A question is required.">>)]
       ELSE IF ~Truthy(session_data.pdf_docs)
       THEN req' = [Begin("ask_pdf_question", "done") EXCEPT
                      !.question = Val(Val(body)),
                      !.pdf_docs = session_data.pdf_docs,
                      !.result = Error(400,
                         <<"A PDF document must be loaded before asking questions.">>)]
       ELSE req' = [Begin("ask_pdf_question", "ap_intent") EXCEPT
                      !.question = Val(Val(body)),
                      !.pdf_docs = session_data.pdf_docs]

\* routes.py:349-353
ask_pdf_question_intent(outcome) ==
    /\ req.pc = "ap_intent"
    /\ UNCHANGED <<session_data, hist, parked>>
    /\ LET called == [req EXCEPT !.calls = Append(@, Call("intent", outcome))]
       IN  IF outcome.raised # "none"
           THEN req' = [called EXCEPT !.pc = "done", !.result = AskPdfFailure(outcome.error)]
           ELSE req' = [called EXCEPT
                          !.intent = outcome.value,
                          !.pc = IF Contains(<<"general_chat">>, lower(outcome.value))
                                 THEN "ap_conversation" ELSE "ap_planner"]

\* routes.py:354-357
ask_pdf_question_conversation(outcome) ==
    /\ req.pc = "ap_conversation"
    /\ UNCHANGED <<session_data, hist, parked>>
    /\ LET called == [req EXCEPT !.calls = Append(@, Call("conversation", outcome))]
       IN  IF outcome.raised # "none"
           THEN req' = [called EXCEPT !.pc = "done", !.result = AskPdfFailure(outcome.error)]
           ELSE req' = [called EXCEPT !.pc = "done", !.result = Ok(outcome.value)]

\* routes.py:360-363
ChunkManifest(pdf_docs) ==
    join(<<"\n">>,
         [i \in DOMAIN pdf_docs |->
            <<"Chunk ID: ">> \o str(Val(pdf_docs[i].chunk_id))
                \o <<", Start of content: ">>
                \o SubSeq(pdf_docs[i].page_content, 1,
                          IF Len(pdf_docs[i].page_content) < 150
                          THEN Len(pdf_docs[i].page_content) ELSE 150)
                \o <<"...">>])

\* routes.py:392-395: the ids the planner named, or every id when int raises
RelevantChunkIds(relevant_chunks_str, pdf_docs) ==
    LET parts == split(relevant_chunks_str, ",")
        kept == Filter(parts, {i \in DOMAIN parts : isdigit(strip(parts[i]))})
    IN  IF \A i \in DOMAIN kept : CanInt(strip(kept[i]))
        THEN [i \in DOMAIN kept |-> int(strip(kept[i]))]
        ELSE [i \in DOMAIN pdf_docs |-> Val(pdf_docs[i].chunk_id)]

\* routes.py:399
SelectRelevantPdfDocs(pdf_docs, relevant_chunk_ids) ==
    Filter(pdf_docs, {i \in DOMAIN pdf_docs :
                Val(pdf_docs[i].chunk_id) \in Range(relevant_chunk_ids)})

\* a planner failure swallowed: every chunk is selected and the answer
\* prompt still runs
ask_pdf_question_planner_swallows(outcome) ==
    /\ req.pc = "ap_planner"
    /\ UNCHANGED <<session_data, hist, parked>>
    /\ LET called == [req EXCEPT
                        !.file_manifest = Some(ChunkManifest(Val(req.pdf_docs))),
                        !.calls = Append(@, Call("planner", outcome))]
       IN  IF outcome.raised # "none"
           THEN req' = [called EXCEPT !.relevant_docs = Val(req.pdf_docs),
                                      !.pc = "ap_responder"]
           ELSE req' = [called EXCEPT
                          !.planned = RelevantChunkIds(outcome.value, Val(req.pdf_docs)),
                          !.relevant_docs =
                              SelectRelevantPdfDocs(
                                  Val(req.pdf_docs),
                                  RelevantChunkIds(outcome.value, Val(req.pdf_docs))),
                          !.pc = "ap_responder"]

\* routes.py:360-399
ask_pdf_question_planner(outcome) ==
    /\ req.pc = "ap_planner"
    /\ UNCHANGED <<session_data, hist, parked>>
    /\ LET called == [req EXCEPT
                        !.file_manifest = Some(ChunkManifest(Val(req.pdf_docs))),
                        !.calls = Append(@, Call("planner", outcome))]
       IN  IF outcome.raised # "none"
           THEN req' = [called EXCEPT !.pc = "done", !.result = AskPdfFailure(outcome.error)]
           ELSE req' = [called EXCEPT
                          !.planned = RelevantChunkIds(outcome.value, Val(req.pdf_docs)),
                          !.relevant_docs =
                              SelectRelevantPdfDocs(
                                  Val(req.pdf_docs),
                                  RelevantChunkIds(outcome.value, Val(req.pdf_docs))),
                          !.pc = "ap_responder"]

\* routes.py:401-403
ContextForPdfResponder(relevant_pdf_docs) ==
    join(<<"\n\n---\n\n">>,
         [i \in DOMAIN relevant_pdf_docs |->
            <<"Content from Chunk ">> \o str(Val(relevant_pdf_docs[i].chunk_id))
                \o <<":", "\n">> \o relevant_pdf_docs[i].page_content])

\* routes.py:401-430
ask_pdf_question_responder(outcome) ==
    /\ req.pc = "ap_responder"
    /\ UNCHANGED <<session_data, hist, parked>>
    /\ LET called == [req EXCEPT
                        !.context = Some(ContextForPdfResponder(req.relevant_docs)),
                        !.calls = Append(@, Call("responder", outcome))]
       IN  IF outcome.raised # "none"
           THEN req' = [called EXCEPT !.pc = "done", !.result = AskPdfFailure(outcome.error)]
           ELSE req' = [called EXCEPT !.pc = "done", !.result = Ok(outcome.value)]

ask_pdf_question_route ==
    \/ \E body \in JsonBodies(Questions) : ask_pdf_question_start(body)
    \/ \E outcome \in LLMOutcomes(PdfIntentOutputs) : ask_pdf_question_intent(outcome)
    \/ \E outcome \in LLMOutcomes(LLMTexts) : ask_pdf_question_conversation(outcome)
    \/ \E outcome \in LLMOutcomes(PdfPlannerOutputs) : ask_pdf_question_planner(outcome)
    \/ \E outcome \in LLMOutcomes(LLMTexts) : ask_pdf_question_responder(outcome)

-----------------------------------------------------------------------------
(* The read handlers, routes.py:437-484 *)

\* routes.py:437-449
get_repo_tree_route(token, api_ok) ==
    /\ AtRest
    /\ UNCHANGED <<session_data, hist, parked>>
    /\ IF ~Truthy(session_data.repo_url)
       THEN req' = [Begin("get_repo_tree", "done") EXCEPT
                      !.result = Error(400, <<"No repository loaded.">>)]
       ELSE LET r == fetch_repo_tree(Val(session_data.repo_url), token, api_ok)
            IN  req' = [Begin("get_repo_tree", "done") EXCEPT
                          !.url = Val(session_data.repo_url),
                          !.result = IF r.raised = "none" THEN Ok(r.value)
                                     ELSE Error(400, r.error)]

FilePaths ==
    { <<>>, README_MD, <<"LOGO", ".PNG">>, <<"big", ".txt">>, <<"data", ".dat">>,
      <<"src">>, <<"src", "/", "a", ".py">>, <<"nope", ".py">>,
      <<"medium", ".txt">>, <<"huge", ".txt">>, <<"photo", ".JPG">>,
      <<".DS_Store">> }

\* routes.py:452-468
get_file_content_route(body, token, api_ok) ==
    /\ AtRest
    /\ UNCHANGED <<session_data, hist, parked>>
    /\ IF IsNone(body)
       THEN req' = [Begin("get_file_content", "done") EXCEPT
                      !.result = Unhandled(<<"AttributeError">>)]
       ELSE IF ~Truthy(Val(body))
       THEN req' = [Begin("get_file_content", "done") EXCEPT
                      !.result = Error(400, <<"File path is required">>)]
       ELSE IF ~Truthy(session_data.repo_url)
       THEN req' = [Begin("get_file_content", "done") EXCEPT
                      !.result = Error(400, <<"No repository loaded.">>)]
       ELSE LET r == fetch_file_content(Val(session_data.repo_url), Val(Val(body)),
                                        token, api_ok)
            IN  req' = [Begin("get_file_content", "done") EXCEPT
                          !.url = Val(session_data.repo_url),
                          !.result = IF r.raised = "none" THEN Ok(r.value)
                                     ELSE Error(400, r.error)]

\* app.config as backend/app/__init__.py leaves it: no key is set there
app_config == {}

\* routes.py:471-484.  No handler saves an upload to disk, so with an upload
\* folder configured send_from_directory finds no file and aborts with 404.
get_document_content_route ==
    /\ AtRest
    /\ UNCHANGED <<session_data, hist, parked>>
    /\ IF ~Truthy(session_data.document_filename)
       THEN req' = [Begin("get_document_content", "done") EXCEPT
                      !.result = Error(404,
                         <<"No document has been uploaded in this session.">>)]
       ELSE IF "UPLOAD_FOLDER" \notin app_config
       THEN req' = [Begin("get_document_content", "done") EXCEPT
                      !.result = Unhandled(<<"KeyError: ", "UPLOAD_FOLDER">>)]
       ELSE req' = [Begin("get_document_content", "done") EXCEPT
                      !.result = Error(404, <<"Not Found">>)]

\* the response has been sent and the handler's frame is gone
respond ==
    /\ req.pc = "done"
    /\ req' = Idle
    /\ UNCHANGED <<session_data, hist, parked>>

Next ==
    \/ load_repo_route
    \/ load_file_route
    \/ load_pdf_route
    \/ ask_question_route
    \/ ask_pdf_question_route
    \/ \E token, api_ok \in BOOLEAN : get_repo_tree_route(token, api_ok)
    \/ \E body \in JsonBodies(FilePaths), token, api_ok \in BOOLEAN :
            get_file_content_route(body, token, api_ok)
    \/ get_document_content_route
    \/ respond

Spec == Init /\ [][Next]_vars

-----------------------------------------------------------------------------
(* Two load requests served by two worker threads (run.py:8, app.run: the   *)
(* development server handles each request in a thread of its own).  req   *)
(* is the frame of the running thread, parked the frame of the other one.  *)

\* the interpreter leaves the running thread between two statements and
\* resumes the other one, unless that one has returned
switch ==
    /\ parked.pc # "done"
    /\ req' = parked
    /\ parked' = req
    /\ UNCHANGED <<session_data, hist>>

NextThreads ==
    \/ load_repo_route
    \/ load_file_route
    \/ load_pdf_route
    \/ switch

SpecThreads == Init /\ [][NextThreads]_vars

-----------------------------------------------------------------------------
(* Properties *)

Asks == {"ask_question", "ask_pdf_question"}

Done(op) == req.op = op /\ req.pc = "done"
Succeeded(op) == Done(op) /\ req.result.kind = "ok"

\* C1. Session mutual exclusion: in every state, the intermediate states of
\* the load handlers included, the session never holds a non-empty repo/file
\* corpus (docs) together with a non-empty PDF corpus (pdf_docs).
C1_MutualExclusion ==
    ~(Truthy(session_data.docs) /\ Truthy(session_data.pdf_docs))

\* a successful load_pdf has been followed by a successful load_repo that
\* left a non-empty corpus
C1_Witness ==
    /\ Succeeded("load_repo")
    /\ Truthy(session_data.docs)
    /\ Len(hist) = 2
    /\ hist[1] = LoadEntry("load_pdf", TRUE)

\* C2. Replace-on-load: when a load returns success the session holds what
\* this load alone produces and nothing of an earlier corpus.  After load_file
\* or load_pdf: repo_url is None and docs/file_manifest are the upload's own
\* chunks and their sources (None after load_pdf).  After load_repo: pdf_docs
\* and the three document_* fields are None and docs/file_manifest are the
\* repository's chunks and their sources.
C2_ReplaceOnLoad ==
    /\ Succeeded("load_file") =>
        /\ session_data.repo_url = None
        /\ session_data.pdf_docs = None
        /\ ~IsNone(session_data.docs)
        /\ \A i \in DOMAIN Val(session_data.docs) :
                /\ Val(session_data.docs)[i].source = req.file.filename
                /\ Val(session_data.docs)[i].chunk = Some(i - 1)
        /\ session_data.file_manifest =
                Some(join(<<"\n">>, [i \in DOMAIN Val(session_data.docs) |->
                                        req.file.filename]))
    /\ Succeeded("load_pdf") =>
        /\ session_data.repo_url = None
        /\ session_data.docs = None
        /\ session_data.file_manifest = None
    /\ Succeeded("load_repo") =>
        /\ session_data.pdf_docs = None
        /\ session_data.document_filename = None
        /\ session_data.document_content = None
        /\ session_data.document_mimetype = None
        /\ session_data.repo_url = Some(req.url)
        /\ session_data.docs = Some(fetch_repo_docs(req.url, TRUE, TRUE).value)
        /\ session_data.file_manifest =
                Some(join(<<"\n">>, [i \in DOMAIN Val(session_data.docs) |->
                                        Val(session_data.docs)[i].source]))

\* a successful load_repo has been followed by a successful load_file that
\* left a non-empty corpus
C2_Witness ==
    /\ Succeeded("load_file")
    /\ Truthy(session_data.docs)
    /\ Len(hist) = 2
    /\ hist[1] = LoadEntry("load_repo", TRUE)

\* the LLM call of a stage, once it has returned
ReturnedCalls(stage) ==
    {i \in DOMAIN req.calls :
        req.calls[i].stage = stage /\ req.calls[i].outcome.raised = "none"}

Output(stage) == req.calls[CHOOSE i \in ReturnedCalls(stage) : TRUE].outcome.value

\* the comma-separated pieces of a planner answer, trimmed
Tokens(answer) == {strip(t) : t \in Range(split(answer, ","))}

\* C3. PDF id fallback: in ask_pdf_question, once the planner has answered
\* and no comma-separated token of its answer parses as an integer, the
\* chunks selected as context are all chunks of the loaded PDF corpus.
C3_PdfIdFallback ==
    ( /\ req.op = "ask_pdf_question"
      /\ ReturnedCalls("planner") # {}
      /\ \A t \in Tokens(Output("planner")) : ~CanInt(t) )
    => req.relevant_docs = Val(req.pdf_docs)

\* C4. README planner fallback: in ask_question on the specific-query path,
\* once the planner has answered: when none of its trimmed identifiers is
\* the source of a loaded chunk, the selected chunks are the loaded chunks
\* whose source contains "README.md", in corpus order; otherwise they are
\* the loaded chunks whose source is one of the identifiers.  The context
\* sent to the answer prompt is built from that selection.
C4_ReadmeFallback ==
    ( /\ req.op = "ask_question"
      /\ ReturnedCalls("planner") # {} )
    => LET all_docs == Val(req.all_docs)
           ids == Tokens(Output("planner"))
           sources == {all_docs[i].source : i \in DOMAIN all_docs}
           expected ==
              IF ids \cap sources = {}
              THEN Filter(all_docs, {i \in DOMAIN all_docs :
                            Contains(<<"README", ".md">>, all_docs[i].source)})
              ELSE Filter(all_docs, {i \in DOMAIN all_docs :
                            all_docs[i].source \in ids})
       IN  /\ req.relevant_docs = expected
           /\ req.context # None =>
                req.context = Some(ContextForResponder(expected))

\* the planner named only a file the corpus does not hold, and the README
\* chunks of the root and of docs/ were selected and sent as context
C4_Witness ==
    /\ Succeeded("ask_question")
    /\ ReturnedCalls("planner") # {}
    /\ Output("planner") = <<"setup", ".py">>
    /\ Len(req.relevant_docs) = 3
    /\ req.relevant_docs[3].source = <<"docs", "/", "README", ".md">>
    /\ req.context # None

\* the negative label of the handler's intent classifier
NegativeLabel ==
    IF req.op = "ask_question" THEN <<"conversational_reply">> ELSE <<"general_chat">>

\* the intent classifier answered with the negative label in any letter case
IntentIsNegative ==
    /\ req.op \in Asks
    /\ ReturnedCalls("intent") # {}
    /\ \E i \in 0..(Len(Output("intent")) - 1) :
            LowerLex(Output("intent")[i + 1]) = NegativeLabel[1]

\* C5. Conversational short-circuit: when the intent classifier's output
\* contains the negative label, the request makes no scope, planner or answer
\* call and builds no selection and no context; the only call after the intent
\* call is the small-talk prompt, and its output is the response returned (an
\* error result when that call raises).
C5_ShortCircuit ==
    IntentIsNegative =>
        /\ Len(req.calls) <= 2
        /\ \A i \in DOMAIN req.calls : req.calls[i].stage \in {"intent", "conversation"}
        /\ req.query_type = <<>>
        /\ req.planned = <<>>
        /\ req.relevant_docs = <<>>
        /\ req.context = None
        /\ req.pc = "done" =>
            /\ Len(req.calls) = 2
            /\ req.calls[2].stage = "conversation"
            /\ IF req.calls[2].outcome.raised = "none"
               THEN req.result = Ok(req.calls[2].outcome.value)
               ELSE req.result.kind = "error"

\* the classifier answered "Intent: Conversational_Reply" and the small-talk
\* output was returned
C5_Witness ==
    /\ Succeeded("ask_question")
    /\ IntentIsNegative
    /\ Output("intent") # <<"conversational_reply">>
    /\ req.result.body = Some(Output("conversation"))

\* a question that passed validation: the handler went on to the LLM
Accepted == req.op \in Asks /\ req.calls # <<>>

\* C6 as stated. LLM call budget: every accepted question makes at least
\* one and at most three LLM calls, the answer call last.
C6_AtMostThreeCalls ==
    (Accepted /\ req.pc = "done") =>
        /\ Len(req.calls) \in 1..3
        /\ req.result.kind = "ok" =>
                req.calls[Len(req.calls)].stage \in {"responder", "conversation"}

\* C6 amended. Every accepted question makes at least one and at most four
\* LLM calls (four on the specific-query path of ask_question: intent, scope,
\* planner, answer; at most three for ask_pdf_question), one after another:
\* a call is made only after the previous one returned, no stage is called
\* twice, and on success the last call is the one whose output is returned
\* (the answer prompt, or the small-talk prompt on the conversational branch).
C6_AtMostFourCalls ==
    Accepted =>
        /\ Len(req.calls) \in 1..4
        /\ req.op = "ask_pdf_question" => Len(req.calls) <= 3
        /\ \A i \in DOMAIN req.calls :
                i < Len(req.calls) => req.calls[i].outcome.raised = "none"
        /\ \A i, j \in DOMAIN req.calls :
                req.calls[i].stage = req.calls[j].stage => i = j
        /\ (req.pc = "done" /\ req.result.kind = "ok") =>
                /\ req.calls[Len(req.calls)].stage \in {"responder", "conversation"}
                /\ req.result.body = Some(req.calls[Len(req.calls)].outcome.value)

\* a specific query answered after four calls
C6_Witness ==
    /\ Succeeded("ask_question")
    /\ [i \in DOMAIN req.calls |-> req.calls[i].stage]
            = <<"intent", "query_type", "planner", "responder">>

\* a repository whose whole tree is one 50-byte UTF-8 README.md
ReadmeOnly50(repo) ==
    /\ DOMAIN repo.listing = {<<>>}
    /\ Len(repo.listing[<<>>]) = 1
    /\ LET f == repo.listing[<<>>][1]
       IN  /\ f.type = "file"
           /\ f.path = <<"README", ".md">>
           /\ f.size = 50
           /\ f.bytes.kind = "utf8"
           /\ Len(f.bytes.text) = 50

\* load_repo has fetched the chunks of such a repository
FetchedReadmeOnly ==
    /\ req.op = "load_repo"
    /\ req.pc \in {"lr_set_docs", "lr_set_file_manifest", "lr_set_repo_url", "done"}
    /\ req.pc = "done" => req.result.kind = "ok"
    /\ RepoPath(req.url) \in DOMAIN GithubRepos
    /\ ReadmeOnly50(GithubRepos[RepoPath(req.url)])

Sources(docs) == [i \in DOMAIN docs |-> docs[i].source]

LastLoad == hist[Len(hist)]

\* C8. Re-serving the upload: after a successful load_file or load_pdf with
\* no later load, get_document_content returns the raw bytes the load stored
\* in the session; after a later successful load_repo it reports that no
\* document has been uploaded.
C8_ReServesUpload ==
    (Done("get_document_content") /\ hist # <<>> /\ LastLoad.ok) =>
        IF LastLoad.op \in {"load_file", "load_pdf"}
        THEN /\ req.result.kind = "ok"
             /\ req.result.body = session_data.document_content
        ELSE /\ req.result.kind = "error"
             /\ req.result.status = 404

\* C9. No unhandled fault: no request of any handler ends with an exception
\* leaving the handler; every error is returned as an error result.
C9_NoUnhandledFault ==
    req.pc = "done" => req.result.kind \in {"ok", "error"}

\* the LLM calls of the request that raised
RaisedCalls == {i \in DOMAIN req.calls : req.calls[i].outcome.raised # "none"}

\* C10. Upstream failure handling: when an LLM call of a question request
\* raises, it is the last call of the request (no later stage runs, and the
\* stage is not called again), and the request ends with an error result of
\* status 500 whose message is the handler's fixed text followed by the
\* error's text, without any answer.
C10_UpstreamFailure ==
    \A i \in RaisedCalls :
        /\ i = Len(req.calls)
        /\ \A j \in DOMAIN req.calls : req.calls[j].stage = req.calls[i].stage => j = i
        /\ req.pc = "done"
        /\ req.result.kind = "error"
        /\ req.result.status = 500
        /\ req.result.body = None
        /\ Len(Val(req.result.error)) = 1 + Len(req.calls[i].outcome.error)
        /\ SubSeq(Val(req.result.error), 2, Len(Val(req.result.error)))
                = req.calls[i].outcome.error
        /\ req.calls[i].stage \in {"intent", "query_type", "planner"} =>
                req.context = None

\* the planner call of a specific query raised after two calls had returned
C10_Witness ==
    /\ Done("ask_question")
    /\ Len(req.calls) = 3
    /\ req.calls[3].stage = "planner"
    /\ RaisedCalls = {3}

\* the session a load that returned success leaves when no other request
\* runs beside it, from the inputs and locals of its frame f
LeftAlone(f) ==
    CASE f.op = "load_repo" ->
            [docs |-> Some(f.docs), file_manifest |-> Some(Manifest(f.docs)),
             repo_url |-> Some(f.url), pdf_docs |-> None,
             document_filename |-> None, document_content |-> None,
             document_mimetype |-> None]
      [] f.op = "load_file" ->
            [docs |-> Some(f.docs), file_manifest |-> Some(Manifest(f.docs)),
             repo_url |-> None, pdf_docs |-> None,
             document_filename |-> Some(secure_filename(f.file.filename)),
             document_content |-> Some(f.file.bytes),
             document_mimetype |-> Some(f.file.mimetype)]
      [] f.op = "load_pdf" ->
            [docs |-> None, file_manifest |-> None,
             repo_url |-> None, pdf_docs |-> Some(f.docs),
             document_filename |-> Some(secure_filename(f.file.filename)),
             document_content |-> Some(f.file.bytes),
             document_mimetype |-> Some(f.file.mimetype)]

\* both threads have served a load that returned success; the running
\* thread (req) is the one that returned last, and a successful load makes
\* its last session write in the step that returns
BothLoaded ==
    /\ req.pc = "done" /\ req.result.kind = "ok"
    /\ parked.pc = "done" /\ parked.result.kind = "ok"

\* C11. Last writer wins: once two concurrent loads have both returned
\* success, the seven session fields are exactly those the load that wrote
\* last would have left had it run alone.
C11_LastWriterWins ==
    BothLoaded => session_data = LeftAlone(req)

\* run alone (one request at a time), a successful load leaves LeftAlone
LoadAloneLeavesLeftAlone ==
    (req.op \in {"load_repo", "load_file", "load_pdf"} /\ req.pc = "done"
        /\ req.result.kind = "ok") => session_data = LeftAlone(req)

\* the lines of the session's manifest
ManifestLines == split(Val(session_data.file_manifest), "\n")

\* C12. Manifest distinctness: after a successful load_repo or load_file the
\* manifest lists the sources of the loaded chunks, each source exactly once
\* (one line per distinct source, however many chunks the source was split
\* into).
C12_ManifestDistinct ==
    (Succeeded("load_repo") \/ Succeeded("load_file")) =>
        /\ Range(ManifestLines) \ {<<>>} = Range(Sources(Val(session_data.docs)))
        /\ \A i, j \in DOMAIN ManifestLines :
                ManifestLines[i] = ManifestLines[j] => i = j

\* the chunk lists a load has produced or stored: the handler's local and the
\* two corpora of the session
ChunkLists ==
    {req.docs}
        \cup (IF IsNone(session_data.docs) THEN {} ELSE {Val(session_data.docs)})
        \cup (IF IsNone(session_data.pdf_docs) THEN {} ELSE {Val(session_data.pdf_docs)})

\* C13. Chunk size bound: every chunk the splitter emitted during a load has
\* at most chunk_size characters (4000 for repository, .md and .txt text, 3000
\* for PDF text), and the chunks of one source carry the indices 0, 1, 2, ...
\* in the order of the list.  The separator list of the code ends with the
\* empty separator, so no piece is left longer than chunk_size and the bound
\* holds without exception.
C13_ChunkSizeBound ==
    \A docs \in ChunkLists :
        /\ \A i \in DOMAIN docs :
                /\ docs[i].chunk # None =>
                        Len(docs[i].page_content) <= chunk_size_text
                /\ docs[i].chunk_id # None =>
                        Len(docs[i].page_content) <= chunk_size_pdf
        /\ \A i \in DOMAIN docs :
                LET earlier == Cardinality({j \in 1..(i - 1) :
                                    /\ docs[j].source = docs[i].source
                                    /\ docs[j].chunk = None <=> docs[i].chunk = None
                                    /\ docs[j].chunk_id = None <=> docs[i].chunk_id = None})
                IN  /\ docs[i].chunk # None => docs[i].chunk = Some(earlier)
                    /\ docs[i].chunk_id # None => docs[i].chunk_id = Some(earlier)

\* an upload with paragraphs, words and a run longer than chunk_size has been
\* loaded: five chunks, cut at a space, at the blank line and inside the run,
\* one of them a character short of chunk_size
C13_Witness ==
    /\ Succeeded("load_file")
    /\ req.file = MixedMd
    /\ Len(Val(session_data.docs)) = 5
    /\ Len(Val(session_data.docs)[1].page_content) = chunk_size_text - 49
    /\ Len(Val(session_data.docs)[4].page_content) = chunk_size_text - 1
    /\ Val(session_data.docs)[5].chunk = Some(4)

\* the nodes of a tree, at any depth
RECURSIVE TreeNodes(_)
TreeNodes(children) ==
    UNION {{children[i]} \cup TreeNodes(children[i].children) : i \in DOMAIN children}

\* the files of the repository the request addressed
RepoFiles ==
    LET repo == GithubRepos[RepoPath(req.url)]
    IN  {e \in UNION {Range(repo.listing[d]) : d \in DOMAIN repo.listing} :
            e.type = "file"}

\* the match of a name against the list as lines 129 and 169 compute it
HasBinaryExtension(name) ==
    \E ext \in binary_extensions : endswith(lower(name), ext)

\* C14. Threshold asymmetry between tree and fetch: for a file without a
\* binary extension and of size s with 100000 < s <= 500000 the tree reports
\* is_large = TRUE and viewable = FALSE, while fetch_file_content returns its
\* decoded content with no error (the bytes being UTF-8); fetch_file_content
\* answers "too large" exactly for the files without a binary extension of
\* size s > 500000, and a file with a binary extension gets the "binary"
\* answer whatever its size.
C14_ThresholdAsymmetry ==
    /\ Succeeded("get_repo_tree") =>
            \A f \in RepoFiles :
                (~HasBinaryExtension(f.name) /\ 100000 < f.size /\ f.size <= 500000) =>
                    \E n \in TreeNodes(Val(req.result.body).children) :
                        /\ n.path = f.path
                        /\ n.type = "file"
                        /\ n.is_large
                        /\ ~n.viewable
    /\ Succeeded("get_file_content") =>
            LET view == Val(req.result.body)
            IN  \A f \in RepoFiles :
                    f.path = view.path =>
                        /\ (/\ ~HasBinaryExtension(f.name)
                            /\ 100000 < f.size /\ f.size <= 500000
                            /\ CanDecode(f.bytes)) =>
                                /\ view.content = Some(decode(f.bytes))
                                /\ view.error = None
                        /\ view.error = Some(<<"File too large to display">>) <=>
                                (~HasBinaryExtension(f.name) /\ f.size > 500000)
                        /\ HasBinaryExtension(f.name) =>
                                /\ view.content = None
                                /\ view.is_binary
                                /\ view.error =
                                        Some(<<"Binary file - content not displayable">>)

\* the content of a 500000-byte text file, which the tree of the same
\* repository flags as large and not viewable, has been fetched
C14_Witness ==
    /\ Succeeded("get_file_content")
    /\ Val(req.result.body).path = <<"medium", ".txt">>
    /\ Val(req.result.body).size = 500000
    /\ Val(req.result.body).error = None
    /\ Len(Val(Val(req.result.body).content)) = 500000
    /\ \E n \in TreeNodes(fetch_repo_tree(req.url, TRUE, TRUE).value.children) :
            n.path = <<"medium", ".txt">> /\ n.is_large /\ ~n.viewable

\* load_repo holds the chunks fetch_repo_docs returned
Fetched ==
    /\ req.op = "load_repo"
    /\ req.pc \in {"lr_set_docs", "lr_set_file_manifest", "lr_set_repo_url", "done"}
    /\ req.pc = "done" => req.result.kind = "ok"

\* the name ends with an entry of the denylist, letter case ignored
Denylisted(name) ==
    \E ext \in binary_extensions \cup {<<"package-lock.json">>} :
        endswith(lower(name), lower(ext))

\* C15. Ingestion filter: in the chunks fetch_repo_docs returns, the indexed
\* chunks of a file of the tree (at any depth) are the chunks of its text when
\* its name ends with no entry of the denylist (letter case ignored), its size
\* is at most 100000 and its bytes decode as UTF-8, and none otherwise (a file
\* that does not decode leaves no chunk and the load still succeeds); every
\* indexed chunk belongs to a file of the tree, so each file is visited once.
C15_IngestionFilter ==
    Fetched =>
        /\ \A f \in RepoFiles :
                LET own == {i \in DOMAIN req.docs :
                                req.docs[i].source = f.path /\ req.docs[i].chunk # None}
                    chunks == SelectSeq(req.docs,
                                LAMBDA d : d.source = f.path /\ d.chunk # None)
                IN  IF ~Denylisted(f.name) /\ f.size <= 100000 /\ CanDecode(f.bytes)
                    THEN chunks = FileChunks(f.path, decode(f.bytes))
                    ELSE own = {}
        /\ \A i \in DOMAIN req.docs :
                req.docs[i].chunk # None =>
                    \E f \in RepoFiles : f.path = req.docs[i].source

\* C16. A load request that returns an error leaves the corpus fields docs,
\* file_manifest, repo_url and pdf_docs of the session exactly as they were
\* when the request started.
C16_FailedLoadKeepsCorpus ==
    (/\ req.op \in {"load_repo", "load_file", "load_pdf"}
     /\ req.pc = "done"
     /\ req.result.kind = "error") =>
        Corpus(session_data) = req.before

\* C17. After a load that returned success, a question with a non-empty text
\* asked before any other load (ask_question after load_repo or load_file,
\* ask_pdf_question after load_pdf) is not rejected with the error that asks
\* for a corpus to be loaded first, whatever the loaded text was.
C17_LoadedThenAnswerable ==
    /\ (/\ Done("ask_question")
        /\ req.question # <<>>
        /\ hist # <<>>
        /\ LastLoad.ok
        /\ LastLoad.op \in {"load_repo", "load_file"}) =>
            req.result # Error(400, <<"Please load a repository or file first.">>)
    /\ (/\ Done("ask_pdf_question")
        /\ req.question # <<>>
        /\ hist # <<>>
        /\ LastLoad.ok
        /\ LastLoad.op = "load_pdf") =>
            req.result #
                Error(400, <<"A PDF document must be loaded before asking questions.">>)

\* what fetch_repo_docs returns for each URL when the token is set and the
\* service answers: the chunk list of every successful load_repo of the URL
RepoChunks == [url \in RepoUrls |-> fetch_repo_docs(url, TRUE, TRUE)]

\* no handler is between two of its statements
AtBoundary == req.pc \in {"idle", "done"}

\* C18. At every request boundary of requests served one at a time, a
\* non-null repo_url comes with the chunk list the most recent successful
\* load_repo returned for this URL in docs and with the newline-join of the
\* sources of these chunks in file_manifest.
C18_RepoUrlMatchesDocs ==
    (AtBoundary /\ ~IsNone(session_data.repo_url)) =>
        /\ Val(session_data.repo_url) \in RepoUrls
        /\ RepoChunks[Val(session_data.repo_url)].raised = "none"
        /\ session_data.docs = Some(RepoChunks[Val(session_data.repo_url)].value)
        /\ session_data.file_manifest =
                Some(Manifest(RepoChunks[Val(session_data.repo_url)].value))

\* a load_repo of another URL has failed after a successful load_repo: the
\* session still holds the URL and the chunks of the earlier load
C18_Witness ==
    /\ Done("load_repo")
    /\ req.result.kind = "error"
    /\ Len(hist) = 2
    /\ hist[1] = LoadEntry("load_repo", TRUE)
    /\ ~IsNone(session_data.repo_url)
    /\ Val(session_data.repo_url) # req.url
    /\ req.url # <<>>
    /\ Len(Val(session_data.docs)) > 2
====
